---- MODULE Spec2Model ----
(***************************************************************************)
(* FigmaService (src/services/figma.ts): an HTTP client holding an API key *)
(* and four async operations (getFile, getNode, getNodeImage,              *)
(* fetchImageData), the private helper request() and the module function   *)
(* writeLogs().                                                            *)
(*                                                                         *)
(* Every operation awaits exactly one axios.get.  An operation is two      *)
(* steps: the synchronous prefix up to the await (the ...Call actions,     *)
(* which issue the HTTP request) and the continuation after the await (the *)
(* ...Resume actions), which runs to completion without yielding: parsing, *)
(* both writeLogs calls and the return or throw are one atomic step.       *)
(* The prefix writes no shared state, so overlapping invocations behave as *)
(* some sequential order of their continuations; the model keeps one       *)
(* invocation in `call` and lets the environment change between its two    *)
(* steps.                                                                  *)
(*                                                                         *)
(* Strings that the code inspects character by character (node ids) are    *)
(* sequences of one-character strings; URLs are sequences of string        *)
(* pieces, concatenated as the template literals concatenate them.         *)
(***************************************************************************)
EXTENDS Integers, Sequences, FiniteSets, TLC

VARIABLES apiKey, nodeEnv, cwdWritable, logsDirExists, files, call, callNo

vars == <<apiKey, nodeEnv, cwdWritable, logsDirExists, files, call, callNo>>

(***************************************************************************)
(* Bounds of the model.                                                    *)
(***************************************************************************)
MaxCalls == 2
MaxIdLen == 3

(***************************************************************************)
(* JavaScript values.                                                      *)
(***************************************************************************)
Undefined == "<undefined>"
Null == "<null>"

\* JavaScript truthiness of a string-or-missing value (`x || y`, `if (x)`, `!x`).
Falsy(x) == x \in {Undefined, Null, ""}

Ret(v) == [kind |-> "return", val |-> v]
Thr(e) == [kind |-> "throw", val |-> e]

(***************************************************************************)
(* Input domains.                                                          *)
(***************************************************************************)
ApiKeys == {"key-A", "key-B"}
FileKeys == {"FILE"}
\* depth?: number, rendered by the template literal; undefined and 0 are falsy.
Depths == {Undefined, "0", "2"}
IdChars == {"1", "-", ":"}

RECURSIVE SeqsUpTo(_, _)
SeqsUpTo(S, n) ==
  IF n = 0 THEN {<<>>}
  ELSE LET shorter == SeqsUpTo(S, n - 1)
       IN shorter \cup {Append(s, c) : s \in {t \in shorter : Len(t) = n - 1}, c \in S}

\* Node ids the normalization is exercised on: every string over IdChars up to MaxIdLen.
AllNodeIds == SeqsUpTo(IdChars, MaxIdLen)
\* Node ids of the full client model.
NodeIds == {<<"1", "-", "2">>, <<"1", "2">>, <<"1", "-", "2", "-", "3">>}
ImageUrls == {"https://img/a", "https://img/b"}
Payloads == {"payload-1", "payload-2"}
HttpErrorStatuses == {404, 500}
ErrFields == {Undefined, "", "file not found"}
ImageErrFields == {Null, Undefined, "", "render failed"}
ImageBodies == {<<>>, <<77>>, <<77, 97>>, <<77, 97, 110>>}
NodeEnvs == {Undefined, "development", "production"}
LogFaults == {"none", "mkdir", "stringify", "write"}
LogNames == {"figma-raw.json", "figma-simplified.json"}

\* What the network answers to one axios.get.
\*   ok          a 2xx response, body in data
\*   httpError   axios rejects with an AxiosError that has a response
\*   noResponse  axios rejects with no response (network unreachable, timeout)
NetOk(d) == [t |-> "ok", status |-> 200, err |-> Undefined, data |-> d]
NetHttpError(s, e) == [t |-> "httpError", status |-> s, err |-> e, data |-> Undefined]
NetNoResponse == [t |-> "noResponse", status |-> 0, err |-> Undefined, data |-> Undefined]
NetFailures ==
  {NetHttpError(s, e) : s \in HttpErrorStatuses, e \in ErrFields} \cup {NetNoResponse}

\* Error values.  status 0 and node <<>> stand for "no such property".
FigmaError(s, e) == [type |-> "FigmaError", status |-> s, msg |-> e, node |-> <<>>]
Error(m) == [type |-> "Error", status |-> 0, msg |-> m, node |-> <<>>]
ErrorNode(m, id) == [type |-> "Error", status |-> 0, msg |-> m, node |-> id]
AxiosErrorOf(net) == [type |-> "AxiosError", status |-> net.status, msg |-> "axios", node |-> <<>>]

(***************************************************************************)
(* External collaborators (./simplify-node-response): the two transformers *)
(* are opaque.  Their result is the symbolic application of the transformer*)
(* to the payload; whether they throw is the transformer's business and is *)
(* an input of the step (ok).                                              *)
(***************************************************************************)
Simplified(transformer, payload) == <<transformer, payload>>
TransformError == Error("transformer failed")
parseFigmaFileResponse(response, ok) ==
  IF ok THEN Ret(Simplified("parseFigmaFileResponse", response)) ELSE Thr(TransformError)
parseFigmaResponse(response, ok) ==
  IF ok THEN Ret(Simplified("parseFigmaResponse", response)) ELSE Thr(TransformError)

(***************************************************************************)
(* FigmaService.request                                                    *)
(***************************************************************************)
baseUrl == "https://api.figma.com/v1"

NoHeaders == [h \in {} |-> ""]
\* The axios config of request(): headers: { "X-Figma-Token": this.apiKey }.
RequestHeadersNoToken(key) == NoHeaders
RequestHeaders(key) == [h \in {"X-Figma-Token"} |-> key]

\* The GET request() issues for an endpoint.
RequestGet(key, endpoint) == [url |-> <<baseUrl>> \o endpoint, headers |-> RequestHeaders(key)]

\* The catch block of request(): what it throws for a rejected axios.get.
RequestCatchNullish(net) ==
  IF net.t = "httpError"
  THEN FigmaError(net.status, IF net.err = Undefined THEN "Unknown error" ELSE net.err)
  ELSE Error("Failed to make request to Figma API")
RequestCatchAlwaysStructured(net) ==
  FigmaError(net.status, IF Falsy(net.err) THEN "Unknown error" ELSE net.err)
RequestCatch(net) ==
  IF net.t = "httpError"
  THEN FigmaError(net.status, IF Falsy(net.err) THEN "Unknown error" ELSE net.err)
  ELSE Error("Failed to make request to Figma API")

\* request() after the await: response.data, or the translated error.
RequestResult(net) == IF net.t = "ok" THEN Ret(net.data) ELSE Thr(RequestCatch(net))

(***************************************************************************)
(* writeLogs(name, value).  fs is the part of the filesystem it touches:   *)
(* [dir |-> whether ./logs exists, files |-> content of each log file].    *)
(* fault is the step of this call that the operating system or the         *)
(* serializer makes fail ("none": no step fails).  Returns the filesystem  *)
(* afterwards, whether an exception escaped writeLogs (threw) and whether  *)
(* one of its catch blocks ran (failed).  from is the number of the        *)
(* invocation that writes, kept with the content.                          *)
(***************************************************************************)
NoFile == [from |-> 0, json |-> Undefined]
\* JSON.stringify(value, null, 2): the text that denotes value.
Stringify(value) == <<"json", value>>
FileOf(from, value) == [from |-> from, json |-> Stringify(value)]

\* writeLogs without its outer try/catch.
WriteLogsNoOuterCatch(fs, name, value, fault, env, writable, from) ==
  IF env # "development"
  THEN [fs |-> fs, threw |-> FALSE, failed |-> FALSE]
  ELSE IF ~writable
  THEN [fs |-> fs, threw |-> FALSE, failed |-> TRUE]
  ELSE IF ~fs.dir /\ fault = "mkdir"
  THEN [fs |-> fs, threw |-> TRUE, failed |-> TRUE]
  ELSE IF fault \in {"stringify", "write"}
  THEN [fs |-> [fs EXCEPT !.dir = TRUE], threw |-> TRUE, failed |-> TRUE]
  ELSE [fs |-> [dir |-> TRUE, files |-> [fs.files EXCEPT ![name] = FileOf(from, value)]],
        threw |-> FALSE, failed |-> FALSE]

writeLogs(fs, name, value, fault, env, writable, from) ==
  IF env # "development"
  THEN \* if (process.env.NODE_ENV !== "development") return;
       [fs |-> fs, threw |-> FALSE, failed |-> FALSE]
  ELSE IF ~writable
  THEN \* fs.accessSync throws; the inner catch logs and returns
       [fs |-> fs, threw |-> FALSE, failed |-> TRUE]
  ELSE IF ~fs.dir /\ fault = "mkdir"
  THEN \* fs.mkdirSync throws; the outer catch logs
       [fs |-> fs, threw |-> FALSE, failed |-> TRUE]
  ELSE IF fault \in {"stringify", "write"}
  THEN \* JSON.stringify or fs.writeFileSync throws, after the directory was
       \* made; the outer catch logs
       [fs |-> [fs EXCEPT !.dir = TRUE], threw |-> FALSE, failed |-> TRUE]
  ELSE [fs |-> [dir |-> TRUE, files |-> [fs.files EXCEPT ![name] = FileOf(from, value)]],
        threw |-> FALSE, failed |-> FALSE]

LogError == Error("log write failed")

(***************************************************************************)
(* Endpoints and requests of the four operations (the part before await).  *)
(***************************************************************************)
\* `depth ? ... : ""`: undefined and 0 are falsy.
DepthGiven(depth) == depth \notin {Undefined, "0"}

GetFileEndpoint(fileKey, depth) ==
  <<"/files/", fileKey>> \o (IF DepthGiven(depth) THEN <<"?depth=", depth>> ELSE <<>>)

GetNodeEndpoint(fileKey, nodeId, depth) ==
  <<"/files/", fileKey, "/nodes?ids=">> \o nodeId
    \o (IF DepthGiven(depth) THEN <<"&depth=", depth>> ELSE <<>>)

\* String.prototype.replace with a string pattern: the first occurrence only.
RECURSIVE ReplaceFirst(_, _, _)
ReplaceFirst(s, pattern, replacement) ==
  IF s = <<>> THEN <<>>
  ELSE IF Head(s) = pattern THEN <<replacement>> \o Tail(s)
  ELSE <<Head(s)>> \o ReplaceFirst(Tail(s), pattern, replacement)

\* replaceAll, or replace with the regular expression /-/g.
FormatNodeIdAll(nodeId) ==
  [i \in 1..Len(nodeId) |-> IF nodeId[i] = "-" THEN ":" ELSE nodeId[i]]
\* const formattedNodeId = nodeId.replace("-", ":");
FormatNodeId(nodeId) == ReplaceFirst(nodeId, "-", ":")

GetNodeImageEndpoint(fileKey, formattedNodeId) ==
  <<"/images/", fileKey, "?ids=">> \o formattedNodeId \o <<"&scale=1&format=png">>

\* axios.get(imageUrl, { responseType: "arraybuffer" }): no headers are set.
FetchImageDataGet(imageUrl) == [url |-> <<imageUrl>>, headers |-> NoHeaders]

(***************************************************************************)
(* Buffer.from(data, "binary").toString("base64"): bytes to base64 digits  *)
(* (0..63, and 64 for the padding "=").                                    *)
(***************************************************************************)
RECURSIVE Base64(_)
Base64(bytes) ==
  IF Len(bytes) = 0 THEN <<>>
  ELSE IF Len(bytes) = 1
  THEN <<bytes[1] \div 4, (bytes[1] % 4) * 16, 64, 64>>
  ELSE IF Len(bytes) = 2
  THEN <<bytes[1] \div 4, (bytes[1] % 4) * 16 + bytes[2] \div 16, (bytes[2] % 16) * 4, 64>>
  ELSE <<bytes[1] \div 4, (bytes[1] % 4) * 16 + bytes[2] \div 16,
         (bytes[2] % 16) * 4 + bytes[3] \div 64, bytes[3] % 64>>
       \o Base64(SubSeq(bytes, 4, Len(bytes)))

(***************************************************************************)
(* The continuations after the await.  Each returns the operation's        *)
(* outcome (what the promise settles with), the filesystem afterwards, the *)
(* transformer's outcome and whether a writeLogs catch block ran.          *)
(***************************************************************************)
NotCalled == [kind |-> "notcalled", val |-> Undefined]
Pending == [kind |-> "pending", val |-> Undefined]

Done(outcome, fs, xform, logFailed) ==
  [outcome |-> outcome, fs |-> fs, xform |-> xform, logFailed |-> logFailed]

\* getFile whose catch block logs the error and does not rethrow it.
GetFileSwallowsError(net, xfOk, f1, f2, fs, env, writable, from) ==
  LET r == RequestResult(net) IN
  IF r.kind = "throw" THEN Done(Ret(Undefined), fs, NotCalled, FALSE)
  ELSE
    LET x == parseFigmaFileResponse(r.val, xfOk) IN
    IF x.kind = "throw" THEN Done(Ret(Undefined), fs, x, FALSE)
    ELSE
      LET w1 == writeLogs(fs, "figma-raw.json", r.val, f1, env, writable, from)
          w2 == writeLogs(w1.fs, "figma-simplified.json", x.val, f2, env, writable, from)
      IN Done(Ret(x.val), w2.fs, x, w1.failed \/ w2.failed)

\* getFile that returns the response instead of the simplified response.
GetFileReturnsResponse(net, xfOk, f1, f2, fs, env, writable, from) ==
  LET r == RequestResult(net) IN
  IF r.kind = "throw" THEN Done(r, fs, NotCalled, FALSE)
  ELSE
    LET x == parseFigmaFileResponse(r.val, xfOk) IN
    IF x.kind = "throw" THEN Done(x, fs, x, FALSE)
    ELSE
      LET w1 == writeLogs(fs, "figma-raw.json", r.val, f1, env, writable, from)
          w2 == writeLogs(w1.fs, "figma-simplified.json", x.val, f2, env, writable, from)
      IN Done(Ret(<<"response", r.val>>), w2.fs, x, w1.failed \/ w2.failed)

\* getFile, lines 48-58: parse, then both logs, then return; catch rethrows.
getFile(net, xfOk, f1, f2, fs, env, writable, from) ==
  LET r == RequestResult(net) IN
  IF r.kind = "throw" THEN Done(r, fs, NotCalled, FALSE)
  ELSE
    LET x == parseFigmaFileResponse(r.val, xfOk) IN
    IF x.kind = "throw" THEN Done(x, fs, x, FALSE)
    ELSE
      LET w1 == writeLogs(fs, "figma-raw.json", r.val, f1, env, writable, from) IN
      IF w1.threw THEN Done(Thr(LogError), w1.fs, x, TRUE)
      ELSE
        LET w2 == writeLogs(w1.fs, "figma-simplified.json", x.val, f2, env, writable, from) IN
        IF w2.threw THEN Done(Thr(LogError), w2.fs, x, TRUE)
        ELSE Done(Ret(x.val), w2.fs, x, w1.failed \/ w2.failed)

\* getNode, lines 63-67: raw log, parse, simplified log, return.
getNode(net, xfOk, f1, f2, fs, env, writable, from) ==
  LET r == RequestResult(net) IN
  IF r.kind = "throw" THEN Done(r, fs, NotCalled, FALSE)
  ELSE
    LET w1 == writeLogs(fs, "figma-raw.json", r.val, f1, env, writable, from) IN
    IF w1.threw THEN Done(Thr(LogError), w1.fs, NotCalled, TRUE)
    ELSE
      LET x == parseFigmaResponse(r.val, xfOk) IN
      IF x.kind = "throw" THEN Done(x, w1.fs, x, w1.failed)
      ELSE
        LET w2 == writeLogs(w1.fs, "figma-simplified.json", x.val, f2, env, writable, from) IN
        IF w2.threw THEN Done(Thr(LogError), w2.fs, x, TRUE)
        ELSE Done(Ret(x.val), w2.fs, x, w1.failed \/ w2.failed)

\* response.images[formattedNodeId]
ImagesAt(images, id) == IF id \in DOMAIN images THEN images[id] ELSE Undefined

\* The lookup before the err test: a URL that is present wins over err.
ImageUrlOfLookupFirst(response, formattedNodeId) ==
  LET imageUrl == ImagesAt(response.images, formattedNodeId) IN
  IF ~Falsy(imageUrl) THEN Ret(imageUrl)
  ELSE IF ~Falsy(response.err) THEN Thr(Error(response.err))
  ELSE Thr(ErrorNode("No image URL found for node ", formattedNodeId))

\* `imageUrl === undefined` instead of `!imageUrl`: a null entry is returned.
ImageUrlOfUndefinedOnly(response, formattedNodeId) ==
  IF ~Falsy(response.err) THEN Thr(Error(response.err))
  ELSE
    LET imageUrl == ImagesAt(response.images, formattedNodeId) IN
    IF imageUrl = Undefined
    THEN Thr(ErrorNode("No image URL found for node ", formattedNodeId))
    ELSE Ret(imageUrl)

\* getNodeImage, lines 84-94, on the response body.
ImageUrlOf(response, formattedNodeId) ==
  IF ~Falsy(response.err) THEN Thr(Error(response.err))
  ELSE
    LET imageUrl == ImagesAt(response.images, formattedNodeId) IN
    IF Falsy(imageUrl)
    THEN Thr(ErrorNode("No image URL found for node ", formattedNodeId))
    ELSE Ret(imageUrl)

\* getNodeImage, lines 82-98: catch rethrows.
getNodeImage(net, formattedNodeId) ==
  LET r == RequestResult(net) IN
  IF r.kind = "throw" THEN r ELSE ImageUrlOf(r.val, formattedNodeId)

\* fetchImageData, lines 108-119: catch rethrows axios' error as it is.
fetchImageData(net) ==
  IF net.t = "ok" THEN Ret(Base64(net.data)) ELSE Thr(AxiosErrorOf(net))

(***************************************************************************)
(* State.                                                                  *)
(*   apiKey         this.apiKey                                            *)
(*   nodeEnv        process.env.NODE_ENV                                   *)
(*   cwdWritable    whether fs.accessSync(process.cwd(), W_OK) succeeds    *)
(*   logsDirExists  whether ./logs exists                                  *)
(*   files          content of ./logs/figma-raw.json, figma-simplified.json*)
(*   call           the invocation in progress or last completed:          *)
(*                  its arguments and locals, the requests it issued, the  *)
(*                  network's answer, the transformer's outcome and the    *)
(*                  outcome of the operation                               *)
(*   callNo         number of invocations started                          *)
(***************************************************************************)
Fs == [dir |-> logsDirExists, files |-> files]

NoCall ==
  [op |-> "none", pc |-> "idle", fileKey |-> "", nodeId |-> <<>>, depth |-> Undefined,
   imageUrl |-> "", formattedNodeId |-> <<>>, requests |-> <<>>, net |-> NetNoResponse,
   xform |-> NotCalled, logFailed |-> FALSE, outcome |-> Pending]

Init ==
  /\ apiKey \in ApiKeys
  /\ nodeEnv \in NodeEnvs
  /\ cwdWritable \in BOOLEAN
  /\ logsDirExists \in BOOLEAN
  /\ files = [n \in LogNames |-> NoFile]
  /\ call = NoCall
  /\ callNo = 0

CanCall == call.pc \in {"idle", "done"} /\ callNo < MaxCalls

Begin(c) ==
  /\ CanCall
  /\ call' = c
  /\ callNo' = callNo + 1
  /\ UNCHANGED <<apiKey, nodeEnv, cwdWritable, logsDirExists, files>>

Settle(d, net) ==
  /\ call' = [call EXCEPT !.pc = "done", !.net = net, !.xform = d.xform,
                          !.logFailed = d.logFailed, !.outcome = d.outcome]
  /\ logsDirExists' = d.fs.dir
  /\ files' = d.fs.files
  /\ UNCHANGED <<apiKey, nodeEnv, cwdWritable, callNo>>

Awaiting(op) == call.op = op /\ call.pc = "awaiting"

GetFileCall(fileKey, depth) ==
  Begin([NoCall EXCEPT !.op = "getFile", !.pc = "awaiting", !.fileKey = fileKey,
                       !.depth = depth,
                       !.requests = <<RequestGet(apiKey, GetFileEndpoint(fileKey, depth))>>])

GetFileResume(net, xfOk, f1, f2) ==
  /\ Awaiting("getFile")
  /\ Settle(getFile(net, xfOk, f1, f2, Fs, nodeEnv, cwdWritable, callNo), net)

GetNodeCall(fileKey, nodeId, depth) ==
  Begin([NoCall EXCEPT !.op = "getNode", !.pc = "awaiting", !.fileKey = fileKey,
                       !.nodeId = nodeId, !.depth = depth,
                       !.requests =
                          <<RequestGet(apiKey, GetNodeEndpoint(fileKey, nodeId, depth))>>])

GetNodeResume(net, xfOk, f1, f2) ==
  /\ Awaiting("getNode")
  /\ Settle(getNode(net, xfOk, f1, f2, Fs, nodeEnv, cwdWritable, callNo), net)

GetNodeImageCall(fileKey, nodeId) ==
  LET formattedNodeId == FormatNodeId(nodeId) IN
  Begin([NoCall EXCEPT !.op = "getNodeImage", !.pc = "awaiting", !.fileKey = fileKey,
                       !.nodeId = nodeId, !.formattedNodeId = formattedNodeId,
                       !.requests =
                          <<RequestGet(apiKey,
                                       GetNodeImageEndpoint(fileKey, formattedNodeId))>>])

GetNodeImageResume(net) ==
  /\ Awaiting("getNodeImage")
  /\ Settle(Done(getNodeImage(net, call.formattedNodeId), Fs, NotCalled, FALSE), net)

FetchImageDataCall(imageUrl) ==
  Begin([NoCall EXCEPT !.op = "fetchImageData", !.pc = "awaiting", !.imageUrl = imageUrl,
                       !.requests = <<FetchImageDataGet(imageUrl)>>])

FetchImageDataResume(net) ==
  /\ Awaiting("fetchImageData")
  /\ Settle(Done(fetchImageData(net), Fs, NotCalled, FALSE), net)

\* The process environment and the working directory's permissions change
\* outside the client; writeLogs reads both anew on every call.
EnvChange ==
  /\ nodeEnv' \in NodeEnvs
  /\ cwdWritable' \in BOOLEAN
  /\ <<nodeEnv', cwdWritable'>> # <<nodeEnv, cwdWritable>>
  /\ UNCHANGED <<apiKey, logsDirExists, files, call, callNo>>

(***************************************************************************)
(* What the remote service can answer.                                     *)
(***************************************************************************)
FileAnswers == {NetOk(p) : p \in Payloads} \cup NetFailures

\* GetImagesResponse bodies about the ids of the invocation: an err field and
\* a mapping from node ids to a URL or null.
ImageMappings(ids) ==
  UNION {[dom -> ImageUrls \cup {Null}] : dom \in SUBSET ids}
ImageAnswers(ids) ==
  {NetOk([err |-> e, images |-> m]) : e \in ImageErrFields, m \in ImageMappings(ids)}
    \cup NetFailures
BytesAnswers == {NetOk(b) : b \in ImageBodies} \cup NetFailures

Resumes ==
  \/ \E net \in FileAnswers, xfOk \in BOOLEAN, f1, f2 \in LogFaults :
       GetFileResume(net, xfOk, f1, f2)
  \/ \E net \in FileAnswers, xfOk \in BOOLEAN, f1, f2 \in LogFaults :
       GetNodeResume(net, xfOk, f1, f2)
  \/ \E net \in ImageAnswers({call.nodeId, call.formattedNodeId}) : GetNodeImageResume(net)
  \/ \E net \in BytesAnswers : FetchImageDataResume(net)

Next ==
  \/ \E fileKey \in FileKeys, depth \in Depths : GetFileCall(fileKey, depth)
  \/ \E fileKey \in FileKeys, nodeId \in NodeIds, depth \in Depths :
       GetNodeCall(fileKey, nodeId, depth)
  \/ \E fileKey \in FileKeys, nodeId \in NodeIds : GetNodeImageCall(fileKey, nodeId)
  \/ \E imageUrl \in ImageUrls : FetchImageDataCall(imageUrl)
  \/ Resumes
  \/ EnvChange

Spec == Init /\ [][Next]_vars

(***************************************************************************)
(* The node id normalization on every id up to MaxIdLen: getNodeImage      *)
(* alone, with the environment fixed.                                      *)
(***************************************************************************)
InitNormalize ==
  /\ Init
  /\ nodeEnv = "production"
  /\ cwdWritable
  /\ logsDirExists

NextNormalize ==
  \/ \E fileKey \in FileKeys, nodeId \in AllNodeIds : GetNodeImageCall(fileKey, nodeId)
  \/ \E net \in ImageAnswers({call.nodeId, call.formattedNodeId}) : GetNodeImageResume(net)

SpecNormalize == InitNormalize /\ [][NextNormalize]_vars

(***************************************************************************)
(* Properties.                                                             *)
(***************************************************************************)
Completed(ops) == call.pc = "done" /\ call.op \in ops
AuthenticatedOps == {"getFile", "getNode", "getNodeImage"}
LoggingOps == {"getFile", "getNode"}
BothLogsExist == \A n \in LogNames : files[n] # NoFile

\* The normalization as the specification words it: the first hyphen, if
\* there is one, becomes a colon; every other character stays.
FirstHyphenToColon(id) ==
  LET hyphens == {i \in 1..Len(id) : id[i] = "-"} IN
  IF hyphens = {} THEN id
  ELSE LET first == CHOOSE i \in hyphens : \A j \in hyphens : i <= j
       IN [i \in 1..Len(id) |-> IF i = first THEN ":" ELSE id[i]]

HasCredential(request) ==
  /\ "X-Figma-Token" \in DOMAIN request.headers
  /\ request.headers["X-Figma-Token"] = apiKey

\* C2 as stated: every request of every one of the four operations carries
\* the credential.
C2_EveryRequestHasCredential ==
  \A i \in 1..Len(call.requests) : HasCredential(call.requests[i])

\* C2 amended: every request of getFile, getNode and getNodeImage carries the
\* credential given at construction; the request of fetchImageData carries no
\* credential (no header at all); the credential never changes.
C2_AuthenticatedRequestsHaveCredential ==
  /\ [](\A i \in 1..Len(call.requests) :
          IF call.op \in AuthenticatedOps
          THEN HasCredential(call.requests[i])
          ELSE DOMAIN call.requests[i].headers = {})
  /\ [][apiKey' = apiKey]_vars

C2_Witness ==
  /\ call.op = "getNode"
  /\ Len(call.requests) = 1
  /\ call.requests[1].headers["X-Figma-Token"] = apiKey
  /\ callNo = MaxCalls

\* C3: in getNodeImage a non-empty err in the response body makes the
\* operation fail with that text, whatever the URL mapping holds; no URL is
\* returned.
C3_ErrFieldWins ==
  (/\ Completed({"getNodeImage"})
   /\ call.net.t = "ok"
   /\ call.net.data.err \notin {Null, Undefined, ""}) =>
    /\ call.outcome.kind = "throw"
    /\ call.outcome.val.type = "Error"
    /\ call.outcome.val.msg = call.net.data.err

C3_Witness ==
  /\ Completed({"getNodeImage"})
  /\ call.net.t = "ok"
  /\ call.net.data.err = "render failed"
  /\ call.formattedNodeId \in DOMAIN call.net.data.images
  /\ call.net.data.images[call.formattedNodeId] \in ImageUrls
  /\ call.outcome.kind = "throw"

C5_FirstHyphenOnly ==
  (call.op = "getNodeImage") =>
    LET in == call.nodeId
        out == call.formattedNodeId
        hyphens == {i \in 1..Len(in) : in[i] = "-"}
    IN /\ Len(out) = Len(in)
       /\ hyphens = {} => out = in
       /\ \A i \in 1..Len(in) :
            IF i \in hyphens /\ \A j \in hyphens : i <= j
            THEN out[i] = ":"
            ELSE out[i] = in[i]
       /\ call.requests = <<[url |-> <<baseUrl, "/images/", call.fileKey, "?ids=">> \o out
                                       \o <<"&scale=1&format=png">>,
                             headers |-> call.requests[1].headers]>>
       /\ (call.pc = "done" /\ call.outcome.kind = "return") =>
            call.outcome.val = call.net.data.images[out]

C5_Witness ==
  /\ Completed({"getNodeImage"})
  /\ call.nodeId = <<"-", "1", "-">>
  /\ call.formattedNodeId = <<":", "1", "-">>
  /\ call.outcome.kind = "return"

\* C6: no response at all to an authenticated request makes the operation
\* fail with the generic failure, which has no status and is not the
\* structured error.
C6_TransportFailureIsGeneric ==
  (Completed(AuthenticatedOps) /\ call.net.t = "noResponse") =>
    /\ call.outcome.kind = "throw"
    /\ call.outcome.val.type = "Error"
    /\ call.outcome.val.type # "FigmaError"
    /\ call.outcome.val.status = 0
    /\ call.outcome.val.msg = "Failed to make request to Figma API"

C6_Witness ==
  /\ Completed({"getNode"})
  /\ call.net.t = "noResponse"
  /\ call.outcome.kind = "throw"

\* The state part of C7: the outcome of getFile or getNode is the one the
\* operation has without logging (a failed request gives the request's
\* error, a failed transformer the transformer's error, otherwise the
\* transformer's result), whatever the log steps did.
C7_OutcomeWithoutLogging ==
  Completed(LoggingOps) =>
    /\ call.outcome.kind \in {"return", "throw"}
    /\ call.outcome.kind = "throw" => call.outcome.val # LogError
    /\ call.net.t # "ok" => call.outcome = RequestResult(call.net)
    /\ call.net.t = "ok" =>
         /\ call.xform.kind = call.outcome.kind
         /\ call.xform.val = call.outcome.val

\* C7: log writing never changes the outcome of getFile or getNode, whichever
\* log step fails, and no step taken outside development mode creates the
\* log directory or writes a log file.
C7_LoggingIsSideChannel ==
  /\ []C7_OutcomeWithoutLogging
  /\ [][nodeEnv # "development" =>
          (logsDirExists' = logsDirExists /\ files' = files)]_vars

C7_Witness ==
  /\ Completed({"getNode"})
  /\ nodeEnv = "development"
  /\ cwdWritable
  /\ call.logFailed
  /\ call.outcome.kind = "return"
  /\ files["figma-raw.json"].from = callNo
  /\ files["figma-simplified.json"].from # callNo

\* C8: an operation issues at most two network calls; after a network call
\* fails it issues no further one and ends with that error.
C8_NoRetry ==
  /\ Len(call.requests) <= 2
  /\ (call.pc = "done" /\ call.net.t # "ok") =>
       /\ Len(call.requests) = 1
       /\ call.outcome.kind = "throw"
       /\ call.outcome.val.status = call.net.status
       /\ call.outcome.val \notin {TransformError, LogError}
       /\ call.xform = NotCalled

C8_Witness ==
  /\ Completed({"fetchImageData"})
  /\ call.net.t = "httpError"
  /\ Len(call.requests) = 1
  /\ call.outcome.kind = "throw"

\* C9: a successful getFile (getNode) returns exactly what the full-file
\* (node-subset) transformer made of the response payload, and a transformer
\* failure in getFile reaches the caller as it is.
C9_PassThrough ==
  /\ (Completed({"getFile"}) /\ call.outcome.kind = "return") =>
       /\ call.net.t = "ok"
       /\ call.outcome.val = Simplified("parseFigmaFileResponse", call.net.data)
  /\ (Completed({"getNode"}) /\ call.outcome.kind = "return") =>
       /\ call.net.t = "ok"
       /\ call.outcome.val = Simplified("parseFigmaResponse", call.net.data)
  /\ (Completed(LoggingOps) /\ call.net.t = "ok" /\ call.xform.kind = "return") =>
       call.outcome.kind = "return"
  /\ (Completed({"getFile"}) /\ call.xform.kind = "throw") =>
       call.outcome = Thr(TransformError)

C9_Witness ==
  /\ Completed({"getFile"})
  /\ call.net = NetOk("payload-2")
  /\ call.outcome = Ret(Simplified("parseFigmaFileResponse", "payload-2"))

\* C10: whenever both log files exist they come from the same invocation:
\* figma-simplified.json holds the transformer's output for the payload in
\* figma-raw.json.
C10_LogPairConsistent ==
  BothLogsExist =>
    /\ files["figma-raw.json"].from = files["figma-simplified.json"].from
    /\ \E p \in Payloads, t \in {"parseFigmaFileResponse", "parseFigmaResponse"} :
         /\ files["figma-raw.json"].json = Stringify(p)
         /\ files["figma-simplified.json"].json = Stringify(Simplified(t, p))
====
